---- MODULE Spec2Model ----
(***************************************************************************)
(* Model of src/desktop/launch_cn_plus.py: the program catalog of          *)
(* ChineseLauncher, its two-phase (quick, full) index build under an       *)
(* RLock, the background index thread, the search/launch entry points,     *)
(* and the matching engine (PinyinMatcher.match_score, _fuzzy_match,       *)
(* _fallback_fuzzy_match, _deduplicate).                                   *)
(*                                                                         *)
(* Text is a sequence of characters.  A Latin character is a one-letter    *)
(* string; a Chinese character is a token such as "<nan>" whose reading    *)
(* comes from the stub phonetic table PinyinTable.                         *)
(***************************************************************************)
EXTENDS Integers, Sequences, FiniteSets, TLC

VARIABLES
    candidates,           \* self._candidates
    indexed,              \* self._indexed
    full_indexed,         \* self._full_indexed
    lock,                 \* self._lock (RLock): [owner, count]
    executor,             \* self._executor: "none" or [max_workers, shutdown]
    background_indexing,  \* self._background_indexing
    usage_stats,          \* self._usage_stats: display name -> count
    enable_cache,         \* self.enable_cache
    auto_index,           \* the auto_index argument of __init__
    pinyin_enabled,       \* PinyinMatcher.enabled (PINYIN_AVAILABLE)
    cache_file,           \* ~/.windows_mcp_program_cache.json
    similarity,           \* stub of the fuzzywuzzy scorer: <<query, name>> -> 0..100
    tasks,                \* the futures of the five collectors
    pc,                   \* position of every thread
    frames,               \* per thread: stack of return positions
    call,                 \* per caller thread: the API call in progress
    local,                \* per thread: local variables of the running functions
    ret,                  \* per caller thread: what the last API call returned
    ncalls,               \* number of API calls issued so far
    hist,                 \* history: transitions taken and collector submissions
    fn,                   \* pure-function harness: the function under test
    fn_in,                \* pure-function harness: its arguments
    fn_out                \* pure-function harness: its result

vars == << candidates, indexed, full_indexed, lock, executor, background_indexing,
           usage_stats, enable_cache, auto_index, pinyin_enabled, cache_file, similarity, tasks,
           pc, frames, call, local, ret, ncalls, hist, fn, fn_in, fn_out >>

(***************************************************************************)
(* Text helpers: str.lower, str.strip, str.startswith, `in`.               *)
(***************************************************************************)
UpperLetters == << "A", "B", "C", "D", "E", "F", "G", "H", "I", "J", "K", "L", "M",
                   "N", "O", "P", "Q", "R", "S", "T", "U", "V", "W", "X", "Y", "Z" >>

LowerLetters == << "a", "b", "c", "d", "e", "f", "g", "h", "i", "j", "k", "l", "m",
                   "n", "o", "p", "q", "r", "s", "t", "u", "v", "w", "x", "y", "z" >>

LowerChar(c) ==
    IF \E i \in 1..Len(UpperLetters) : UpperLetters[i] = c
    THEN LowerLetters[CHOOSE i \in 1..Len(UpperLetters) : UpperLetters[i] = c]
    ELSE c

Lower(s) == [i \in 1..Len(s) |-> LowerChar(s[i])]

IsSpace(c) == c = " "

RECURSIVE LStrip(_)
LStrip(s) == IF s # << >> /\ IsSpace(Head(s)) THEN LStrip(Tail(s)) ELSE s

RECURSIVE RStrip(_)
RStrip(s) ==
    IF s # << >> /\ IsSpace(s[Len(s)]) THEN RStrip(SubSeq(s, 1, Len(s) - 1)) ELSE s

Strip(s) == RStrip(LStrip(s))

StartsWith(t, q) == Len(q) <= Len(t) /\ SubSeq(t, 1, Len(q)) = q

Contains(t, q) ==
    \E i \in 1..(Len(t) - Len(q) + 1) : SubSeq(t, i, i + Len(q) - 1) = q

RECURSIVE Concat(_)
Concat(ss) == IF ss = << >> THEN << >> ELSE Head(ss) \o Concat(Tail(ss))

(***************************************************************************)
(* Stub phonetic table (pypinyin.lazy_pinyin): the reading of each Chinese *)
(* character; any other character is passed through unchanged.             *)
(***************************************************************************)
PinyinTable ==
    [h \in {"<an>", "<nan>"} |->
        IF h = "<an>" THEN << "a", "n" >> ELSE << "n", "a", "n" >>]

IsHanzi(c) == c \in DOMAIN PinyinTable

to_pinyin_full(enabled, text) ==
    IF ~enabled THEN Lower(text)
    ELSE Lower(Concat([i \in 1..Len(text) |->
             IF IsHanzi(text[i]) THEN PinyinTable[text[i]] ELSE << text[i] >>]))

to_pinyin_initials(enabled, text) ==
    IF ~enabled THEN Lower(text)
    ELSE Lower(Concat([i \in 1..Len(text) |->
             IF IsHanzi(text[i]) THEN << Head(PinyinTable[text[i]]) >> ELSE << text[i] >>]))

(***************************************************************************)
(* PinyinMatcher.match_score: the rules in the order the code tests them.  *)
(***************************************************************************)
\* a match_score that compares the name as it is written
match_score_as_written(enabled, query, target) ==
    LET q  == Strip(Lower(query))
        t  == target
        tp == to_pinyin_full(enabled, t)
        ti == to_pinyin_initials(enabled, t)
    IN  IF q = t THEN 100
        ELSE IF StartsWith(t, q) THEN 90
        ELSE IF Contains(t, q) THEN 60
        ELSE IF ~enabled THEN 0
        ELSE IF q = tp \/ StartsWith(tp, q) THEN 85
        ELSE IF Contains(tp, q) THEN 55
        ELSE IF q = ti \/ StartsWith(ti, q) THEN 75
        ELSE IF Contains(ti, q) THEN 50
        ELSE 0

match_score(enabled, query, target) ==
    LET q  == Strip(Lower(query))
        t  == Strip(Lower(target))
        tp == to_pinyin_full(enabled, t)
        ti == to_pinyin_initials(enabled, t)
    IN  IF q = t THEN 100
        ELSE IF StartsWith(t, q) THEN 90
        ELSE IF Contains(t, q) THEN 60
        ELSE IF ~enabled THEN 0
        ELSE IF q = tp \/ StartsWith(tp, q) THEN 85
        ELSE IF Contains(tp, q) THEN 55
        ELSE IF q = ti \/ StartsWith(ti, q) THEN 75
        ELSE IF Contains(ti, q) THEN 50
        ELSE 0

(***************************************************************************)
(* ProgramCandidate and all_names().  pathlib.Path(...).name is the last   *)
(* component of the path, .stem is the name without its last suffix.       *)
(***************************************************************************)
ProgramCandidate(name, path, source, aliases, metadata) ==
    [display_name |-> name, executable_path |-> path, source |-> source,
     aliases |-> aliases, metadata |-> metadata]

IsSeparator(c) == c = "\\" \/ c = "/"

RECURSIVE PathName(_)
PathName(p) ==
    IF p = << >> THEN << >>
    ELSE IF \E i \in 1..Len(p) : IsSeparator(p[i])
         THEN PathName(SubSeq(p, (CHOOSE i \in 1..Len(p) : IsSeparator(p[i])) + 1, Len(p)))
         ELSE p

PathStem(p) ==
    LET name == PathName(p)
        dots == {i \in 1..Len(name) : name[i] = "."}
        last == CHOOSE i \in dots : \A j \in dots : j <= i
    IN  IF dots # {} /\ 1 < last /\ last < Len(name)
        THEN SubSeq(name, 1, last - 1)
        ELSE name

SeqToSet(s) == {s[i] : i \in 1..Len(s)}

all_names(c) ==
    {c.display_name} \cup SeqToSet(c.aliases)
        \cup (IF c.executable_path # << >>
              THEN {PathStem(c.executable_path), PathName(c.executable_path)}
              ELSE {})

\* all_names() as a duplicate-free list.  The code iterates a set, so the order
\* inside one candidate is arbitrary; nothing below depends on it (every name
\* of the list maps to the same candidate or to an earlier one).
RECURSIVE UniqueLoop(_, _, _)
UniqueLoop(s, i, out) ==
    IF i > Len(s) THEN out
    ELSE UniqueLoop(s, i + 1, IF s[i] \in SeqToSet(out) THEN out ELSE Append(out, s[i]))

Unique(s) == UniqueLoop(s, 1, << >>)

AllNamesSeq(c) ==
    Unique(<< c.display_name >> \o c.aliases
           \o (IF c.executable_path # << >>
               THEN << PathStem(c.executable_path), PathName(c.executable_path) >>
               ELSE << >>))

(***************************************************************************)
(* ChineseLauncher._deduplicate: first candidate per lower-cased path.     *)
(***************************************************************************)
\* a key that keeps the letter case of the path
PathKeyExact(c) == c.executable_path

PathKey(c) == Lower(c.executable_path)

\* the loop of _deduplicate from candidate i on, with `unique` built so far
RECURSIVE DeduplicateLoop(_, _, _)
DeduplicateLoop(cands, i, unique) ==
    IF i > Len(cands) THEN unique
    ELSE DeduplicateLoop(cands, i + 1,
             IF PathKey(cands[i]) \in {PathKey(unique[j]) : j \in 1..Len(unique)}
             THEN unique
             ELSE Append(unique, cands[i]))

Deduplicate(cands) == DeduplicateLoop(cands, 1, << >>)

(***************************************************************************)
(* Matching engine: _fuzzy_match and _fallback_fuzzy_match.                *)
(***************************************************************************)
Max(a, b) == IF a >= b THEN a ELSE b

Min(a, b) == IF a <= b THEN a ELSE b

\* s[:n] for n >= 0
Take(s, n) == SubSeq(s, 1, Min(n, Len(s)))

\* a descending sort that is not stable: an entry goes before the entries of
\* equal score sorted so far
InsertBeforeTies(sorted, x) ==
    LET k == Cardinality({i \in 1..Len(sorted) : sorted[i].score > x.score})
    IN  SubSeq(sorted, 1, k) \o << x >> \o SubSeq(sorted, k + 1, Len(sorted))

\* list.sort(key=score, reverse=True) and heapq.nlargest: stable, descending
InsertByScore(sorted, x) ==
    LET k == Cardinality({i \in 1..Len(sorted) : sorted[i].score >= x.score})
    IN  SubSeq(sorted, 1, k) \o << x >> \o SubSeq(sorted, k + 1, Len(sorted))

RECURSIVE SortLoop(_, _, _)
SortLoop(s, i, sorted) ==
    IF i > Len(s) THEN sorted ELSE SortLoop(s, i + 1, InsertByScore(sorted, s[i]))

SortByScoreDesc(s) == SortLoop(s, 1, << >>)

\* max over all_names() of match_score (max_score starts at 0)
SetMax(S) == IF S = {} THEN 0 ELSE CHOOSE m \in S : \A x \in S : x <= m

CandidateScore(enabled, query, c) ==
    SetMax({match_score(enabled, query, n) : n \in all_names(c)})

\* self._usage_stats.get(name, 0)
UsageOf(stats, name) == IF name \in DOMAIN stats THEN stats[name] ELSE 0

\* a final score without the usage bonus
RankingScoreNoBonus(enabled, stats, query, c) == CandidateScore(enabled, query, c)

\* final_score = max_score + usage_bonus
RankingScore(enabled, stats, query, c) ==
    CandidateScore(enabled, query, c) + UsageOf(stats, c.display_name) * 2

\* a scoring loop without the test max_score > 0: every candidate is ranked
RECURSIVE ScoreLoopUnfiltered(_, _, _, _, _, _)
ScoreLoopUnfiltered(enabled, stats, query, cands, i, scored) ==
    IF i > Len(cands) THEN scored
    ELSE ScoreLoopUnfiltered(enabled, stats, query, cands, i + 1,
             Append(scored, [score |-> RankingScore(enabled, stats, query, cands[i]),
                             candidate |-> cands[i]]))

\* scored_candidates after the sort: the candidates with max_score > 0
RECURSIVE ScoreLoop(_, _, _, _, _, _)
ScoreLoop(enabled, stats, query, cands, i, scored) ==
    IF i > Len(cands) THEN scored
    ELSE ScoreLoop(enabled, stats, query, cands, i + 1,
             IF CandidateScore(enabled, query, cands[i]) > 0
             THEN Append(scored, [score |-> RankingScore(enabled, stats, query, cands[i]),
                                  candidate |-> cands[i]])
             ELSE scored)

ScoredCandidates(enabled, stats, query, cands) ==
    SortByScoreDesc(ScoreLoop(enabled, stats, query, cands, 1, << >>))

\* fuzz_process.extract scores through the stub table; a pair it does not list scores 0
Similarity(sim, query, name) ==
    IF << query, name >> \in DOMAIN sim THEN sim[<< query, name >>] ELSE 0

\* name_to_candidate / names: the first candidate seen wins a name
RECURSIVE NameLoop(_, _, _)
NameLoop(flat, i, table) ==
    IF i > Len(flat) THEN table
    ELSE NameLoop(flat, i + 1,
             IF flat[i].name \in {table[k].name : k \in 1..Len(table)}
             THEN table
             ELSE Append(table, flat[i]))

NamePairs(c) ==
    LET names == AllNamesSeq(c)
    IN  [j \in 1..Len(names) |-> [name |-> names[j], candidate |-> c]]

NameTable(cands) ==
    NameLoop(Concat([i \in 1..Len(cands) |-> NamePairs(cands[i])]), 1, << >>)

\* for name, score in matches: if score >= 60 and candidate not in results
RECURSIVE FallbackLoop(_, _, _)
FallbackLoop(matches, i, results) ==
    IF i > Len(matches) THEN results
    ELSE FallbackLoop(matches, i + 1,
             IF matches[i].score >= 60 /\ matches[i].candidate \notin SeqToSet(results)
             THEN Append(results, matches[i].candidate)
             ELSE results)

FallbackFuzzyMatch(sim, query, limit, cands) ==
    LET table   == NameTable(cands)
        scored  == [i \in 1..Len(table) |->
                       [score |-> Similarity(sim, query, table[i].name),
                        candidate |-> table[i].candidate]]
        matches == Take(SortByScoreDesc(scored), limit)
    IN  Take(FallbackLoop(matches, 1, << >>), limit)

\* a test that sends every query to the fallback
NeedsFallbackAlways(scored) == TRUE

\* the test of line 679
NeedsFallback(scored) == scored = << >> \/ scored[1].score < 50

\* a ranking that returns every scored candidate, not the first `limit`
FuzzyMatchUncut(enabled, stats, sim, query, limit, cands) ==
    LET q        == Strip(query)
        scored   == ScoredCandidates(enabled, stats, q, cands)
        fallback == FallbackFuzzyMatch(sim, q, limit, cands)
    IN  IF q = << >> THEN << >>
        ELSE IF NeedsFallback(scored) /\ fallback # << >> THEN fallback
        ELSE [i \in 1..Len(scored) |-> scored[i].candidate]

FuzzyMatch(enabled, stats, sim, query, limit, cands) ==
    LET q        == Strip(query)
        scored   == ScoredCandidates(enabled, stats, q, cands)
        fallback == FallbackFuzzyMatch(sim, q, limit, cands)
        primary  == Take(scored, limit)
    IN  IF q = << >> THEN << >>
        ELSE IF NeedsFallback(scored) /\ fallback # << >> THEN fallback
        ELSE [i \in 1..Len(primary) |-> primary[i].candidate]

\* _match_program: results[0] if results else None
\* (a list of at most one candidate; the empty list stands for None)
MatchProgram(enabled, stats, sim, query, cands) ==
    Take(FuzzyMatch(enabled, stats, sim, query, 1, cands), 1)

(***************************************************************************)
(* The threads, the five collectors and their canned results.              *)
(***************************************************************************)
Worker == "w"

Callers == {"c1"}

Threads == {Worker} \cup Callers

QuickCollectors == << "startmenu", "path" >>

FullCollectors == << "common_paths", "registry", "shortcuts" >>

CollectorOrder == QuickCollectors \o FullCollectors

Collectors == SeqToSet(CollectorOrder)

\* what each collector returns when it returns (a test stub, spec section 9)
StubResult(k) ==
    CASE k = "startmenu" ->
           << ProgramCandidate(<< "n", "p" >>, << "s", "\\", "n", "p" >>, "startmenu",
                               << >>, "appid") >>
      [] k = "path" ->
           << ProgramCandidate(<< "n", "p" >>, << "S", "\\", "N", "P" >>, "path", << >>, "none"),
              ProgramCandidate(<< "c", "m" >>, << "d", "\\", "c", "m", ".", "x" >>, "path",
                               << >>, "none") >>
      [] k = "common_paths" ->
           << ProgramCandidate(<< "c", "m", "x" >>, << "D", "\\", "C", "M", ".", "x" >>, "scan",
                               << >>, "none"),
              ProgramCandidate(<< "v", "l" >>, << "d", "\\", "v", "l", ".", "x" >>, "scan",
                               << >>, "none") >>
      [] k = "registry" ->
           << ProgramCandidate(<< "v", "l", "c" >>, << "D", "\\", "v", "l", ".", "x" >>,
                               "registry", << >>, "install_location") >>
      [] k = "shortcuts" ->
           << ProgramCandidate(<< "e", "d" >>, << "d", "\\", "e", "d", ".", "x" >>, "shortcut",
                               << >>, "none") >>

\* the queries the callers issue: a quick-phase hit, a full-phase hit, a miss
Queries == { << "n", "p" >>, << "v", "l" >>, << "z", "z" >> }

MaxCalls == 2

\* at most this many faults in a run: a collector that raises, a collector that
\* runs past its timeout, a cache write that fails
MaxFaults == 1

\* limit=5, the default of search()
DefaultLimit == 5

(***************************************************************************)
(* The cache file and _load_index_cache / _save_index_cache.               *)
(***************************************************************************)
\* 12 * 60 * 60
MaxCacheAge == 43200

\* an entry written without its source tag: the loader then tags it 'cache'
ToItemNoSource(c) == [fields |-> c, missing |-> {"source"}, valid |-> TRUE]

\* A cache entry is a JSON object: the values of its keys and the keys it lacks;
\* an entry that is no object at all is not valid.  asdict() writes every key.
ToItem(c) == [fields |-> c, missing |-> {}, valid |-> TRUE]

\* ProgramCandidate(display_name=item.get('display_name', ''), ...)
FromItem(item) ==
    LET Key(k, default) == IF k \in item.missing THEN default ELSE item.fields[k]
    IN  ProgramCandidate(Key("display_name", << >>), Key("executable_path", << >>),
                         Key("source", "cache"), Key("aliases", << >>),
                         Key("metadata", "none"))

\* the loop of _load_index_cache: an entry that raises is skipped
RECURSIVE LoadItems(_, _, _)
LoadItems(items, i, out) ==
    IF i > Len(items) THEN out
    ELSE LoadItems(items, i + 1,
             IF items[i].valid THEN Append(out, FromItem(items[i])) ELSE out)

\* a record written by _save_index_cache `age` seconds ago
CacheRecord(age, full, cands) ==
    [exists |-> TRUE, corrupt |-> FALSE, has_timestamp |-> TRUE, age |-> age,
     full_indexed |-> full, candidates |-> [i \in 1..Len(cands) |-> ToItem(cands[i])]]

NoCacheFile ==
    [exists |-> FALSE, corrupt |-> FALSE, has_timestamp |-> FALSE, age |-> 0,
     full_indexed |-> FALSE, candidates |-> << >>]

\* time.time() - 0 for a record without a timestamp: the seconds since 1970
EpochAge == 56 * 365 * 86400

\* cache_age = time.time() - data.get('timestamp', 0)
CacheAge(file) == IF file.has_timestamp THEN file.age ELSE EpochAge

\* the catalog a quick build of an earlier process saved
QuickSnapshot == Deduplicate(StubResult("startmenu") \o StubResult("path"))

FullSnapshot ==
    Deduplicate(QuickSnapshot \o StubResult("common_paths") \o StubResult("registry")
                \o StubResult("shortcuts"))

\* the cache files construction may find: none, a corrupt one, a stale one
\* (13 hours), fresh ones (1 hour) after a quick or a full build
CacheFiles ==
    { NoCacheFile,
      [NoCacheFile EXCEPT !.exists = TRUE, !.corrupt = TRUE],
      CacheRecord(46800, FALSE, QuickSnapshot),
      CacheRecord(3600, FALSE, QuickSnapshot),
      CacheRecord(3600, TRUE, FullSnapshot) }

\* _load_index_cache: the fields it leaves in the object, and its return value
\* a load that already rejects a record of exactly the maximum age
LoadIndexCacheStrict(file) ==
    IF ~file.exists \/ file.corrupt \/ CacheAge(file) >= MaxCacheAge
    THEN [candidates |-> << >>, indexed |-> FALSE, full_indexed |-> FALSE, loaded |-> FALSE]
    ELSE LET loaded == LoadItems(file.candidates, 1, << >>)
         IN  [candidates |-> loaded, indexed |-> TRUE,
              full_indexed |-> file.full_indexed, loaded |-> Len(loaded) > 0]

LoadIndexCache(file) ==
    IF ~file.exists \/ file.corrupt \/ CacheAge(file) > MaxCacheAge
    THEN [candidates |-> << >>, indexed |-> FALSE, full_indexed |-> FALSE, loaded |-> FALSE]
    ELSE LET loaded == LoadItems(file.candidates, 1, << >>)
         IN  [candidates |-> loaded, indexed |-> TRUE,
              full_indexed |-> file.full_indexed, loaded |-> Len(loaded) > 0]

\* _save_index_cache: the record written (timestamp = now, so its age is 0)
SavedCache(cands, full) == CacheRecord(0, full, cands)

(***************************************************************************)
(* State after ChineseLauncher.__init__.                                   *)
(***************************************************************************)
\* the locals of a thread; matched_full: self._full_indexed when _match_program
\* last ranked the catalog (under the lock); usage_before: the usage count of
\* the candidate when _start_program returned status 0
NoLocal ==
    [acc |-> << >>, before |-> << >>, found |-> << >>, timed_out |-> FALSE, count |-> 0,
     matched_full |-> FALSE, usage_before |-> 0]

NoCall == [kind |-> "none", query |-> << >>, limit |-> 0]

NoRet == [kind |-> "none", results |-> << >>, message |-> "none", code |-> 0]

\* a future: idle (not submitted), queued, running, done, failed, or finished
\* (its outcome was taken by result(), or it ended after result() gave up on it)
NoTask == [status |-> "idle", abandoned |-> FALSE]

NoExecutor == [created |-> FALSE, max_workers |-> 0, shutdown |-> FALSE]

NoHist ==
    [quick_transitions |-> 0, full_transitions |-> 0,
     submitted |-> [k \in Collectors |-> 0],
     quick_catalog |-> << >>, full_before |-> << >>, quick_noops |-> FALSE,
     cache_indexed |-> FALSE, cleaned |-> FALSE, faults |-> 0, budget |-> MaxFaults,
     failed |-> {}]

fnVars == << fn, fn_in, fn_out >>

cfgVars == << enable_cache, auto_index, pinyin_enabled, similarity >>

\* the pure-function harness is idle in the specification of the launcher
FnIdle == fn = "none" /\ fn_in = << >> /\ fn_out = << >>

\* _start_background_indexing: the thread is started unless already indexed
StartsWorker(ec, ai, loadedIndexed) == ai /\ ec /\ ~loadedIndexed

Init ==
    /\ enable_cache \in BOOLEAN
    /\ auto_index \in BOOLEAN
    /\ pinyin_enabled = TRUE
    /\ similarity = << >>
    \* without enable_cache the cache file is neither read nor written
    /\ cache_file \in IF enable_cache THEN CacheFiles ELSE {NoCacheFile}
    /\ LET load == IF enable_cache THEN LoadIndexCache(cache_file)
                   ELSE LoadIndexCache(NoCacheFile)
       IN  /\ candidates = load.candidates
           /\ indexed = load.indexed
           /\ full_indexed = load.full_indexed
           /\ background_indexing = StartsWorker(enable_cache, auto_index, load.indexed)
           /\ pc = [t \in Threads |->
                      IF t = Worker
                      THEN IF StartsWorker(enable_cache, auto_index, load.indexed)
                           THEN "w_start" ELSE "w_none"
                      ELSE "idle"]
    /\ lock = [owner |-> "none", count |-> 0]
    /\ executor = NoExecutor
    /\ usage_stats = << >>
    /\ tasks = [k \in Collectors |-> NoTask]
    /\ frames = [t \in Threads |-> << >>]
    /\ call = [c \in Callers |-> NoCall]
    /\ local = [t \in Threads |-> NoLocal]
    /\ ret = [c \in Callers |-> NoRet]
    /\ ncalls = 0
    /\ hist = [NoHist EXCEPT !.cache_indexed = indexed]
    /\ FnIdle

(***************************************************************************)
(* Control helpers: calls, returns, the RLock, exceptions.                 *)
(***************************************************************************)
Goto(t, p) == pc' = [pc EXCEPT ![t] = p] /\ UNCHANGED frames

CallFn(t, entry, retpc) ==
    /\ pc' = [pc EXCEPT ![t] = entry]
    /\ frames' = [frames EXCEPT ![t] = << retpc >> \o frames[t]]

Return(t) ==
    /\ pc' = [pc EXCEPT ![t] = Head(frames[t])]
    /\ frames' = [frames EXCEPT ![t] = Tail(frames[t])]

\* threading.RLock: free, or already owned by the caller
CanAcquire(t) == lock.owner = "none" \/ lock.owner = t

Acquired(t) == [owner |-> t, count |-> lock.count + 1]

Released(t) ==
    IF lock.count > 1 THEN [owner |-> t, count |-> lock.count - 1]
    ELSE [owner |-> "none", count |-> 0]

\* an exception leaves every `with self._lock` block of the thread and reaches
\* the except clause of the worker, or the caller of the public method
Raise(t) ==
    /\ lock' = IF lock.owner = t THEN [owner |-> "none", count |-> 0] ELSE lock
    /\ frames' = [frames EXCEPT ![t] = << >>]
    /\ pc' = [pc EXCEPT ![t] = IF t = Worker THEN "w_finally" ELSE "returned"]
    /\ ret' = IF t = Worker THEN ret
              ELSE [ret EXCEPT ![t] = [NoRet EXCEPT !.kind = "raised"]]

(***************************************************************************)
(* The worker pool (ThreadPoolExecutor) and the collectors.                *)
(***************************************************************************)
RunningCount(tk) == Cardinality({k \in Collectors : tk[k].status = "running"})

\* a finished task frees its pool thread for the oldest queued task
Promote(tk) ==
    LET queued == {i \in 1..Len(CollectorOrder) : tk[CollectorOrder[i]].status = "queued"}
        first  == CHOOSE i \in queued : \A j \in queued : i <= j
    IN  IF queued # {} /\ RunningCount(tk) < executor.max_workers
        THEN [tk EXCEPT ![CollectorOrder[first]].status = "running"]
        ELSE tk

\* A collector ends at any time; only a build waiting in future.result() (which
\* holds the lock) can tell when, so the events are taken while one is waiting.
ResultPcs == {"q_result_startmenu", "q_result_path", "f_result_common_paths",
              "f_result_registry", "f_result_shortcuts"}

BuildWaiting == \E t \in Threads : pc[t] \in ResultPcs

Ended(k, outcome) ==
    Promote([tasks EXCEPT ![k].status = IF tasks[k].abandoned THEN "finished" ELSE outcome])

\* a collector whose late result is still merged after its call was abandoned
CollectorReturnsMerging(k) ==
    /\ tasks[k].status = "running"
    /\ BuildWaiting
    /\ tasks' = Ended(k, "done")
    /\ candidates' = IF tasks[k].abandoned
                     THEN Deduplicate(candidates \o StubResult(k))
                     ELSE candidates
    /\ UNCHANGED << indexed, full_indexed, lock, executor, background_indexing,
                    usage_stats, cache_file, pc, frames, call, local, ret, ncalls, hist,
                    cfgVars, fnVars >>

CollectorReturns(k) ==
    /\ tasks[k].status = "running"
    /\ BuildWaiting
    /\ tasks' = Ended(k, "done")
    /\ UNCHANGED << candidates, indexed, full_indexed, lock, executor, background_indexing,
                    usage_stats, cache_file, pc, frames, call, local, ret, ncalls, hist,
                    cfgVars, fnVars >>

CollectorRaises(k) ==
    /\ tasks[k].status = "running"
    /\ BuildWaiting
    /\ hist.faults < hist.budget
    /\ tasks' = Ended(k, "failed")
    /\ hist' = [hist EXCEPT !.faults = @ + 1, !.failed = @ \cup {k}]
    /\ UNCHANGED << candidates, indexed, full_indexed, lock, executor, background_indexing,
                    usage_stats, cache_file, pc, frames, call, local, ret, ncalls,
                    cfgVars, fnVars >>

\* self._executor.submit(collector); RuntimeError after shutdown()
Submit(t, from, k, next) ==
    /\ pc[t] = from
    /\ IF executor.shutdown
       THEN /\ Raise(t)
            /\ UNCHANGED << tasks, hist >>
       ELSE /\ tasks' = [tasks EXCEPT ![k] =
                           [status |-> IF RunningCount(tasks) < executor.max_workers
                                       THEN "running" ELSE "queued",
                            abandoned |-> FALSE]]
            /\ hist' = [hist EXCEPT !.submitted[k] = @ + 1]
            /\ Goto(t, next)
            /\ UNCHANGED << lock, ret >>
    /\ UNCHANGED << candidates, indexed, full_indexed, executor, background_indexing,
                    usage_stats, cache_file, call, local, ncalls, cfgVars, fnVars >>

\* results taken in the order in which the collectors of the phase complete
\* (as_completed) instead of the order of submission
ResultAsCompleted(t, from, k, next) ==
    /\ pc[t] = from
    /\ \/ \E j \in Collectors :
             /\ (j \in SeqToSet(QuickCollectors)) = (k \in SeqToSet(QuickCollectors))
             /\ tasks[j].status = "done"
             /\ local' = [local EXCEPT ![t].acc = @ \o StubResult(j)]
             /\ tasks' = [tasks EXCEPT ![j].status = "finished"]
             /\ UNCHANGED hist
       \/ /\ tasks[k].status = "failed"
          /\ tasks' = [tasks EXCEPT ![k].status = "finished"]
          /\ UNCHANGED << local, hist >>
       \/ /\ tasks[k].status \in {"queued", "running"}
          /\ tasks[k].status = "running" => hist.faults < hist.budget
          /\ tasks' = [tasks EXCEPT ![k].abandoned = TRUE]
          /\ hist' = IF tasks[k].status = "running"
                     THEN [hist EXCEPT !.faults = @ + 1, !.failed = @ \cup {k}]
                     ELSE hist
          /\ UNCHANGED local
    /\ Goto(t, next)
    /\ UNCHANGED << candidates, indexed, full_indexed, lock, executor, background_indexing,
                    usage_stats, cache_file, call, ret, ncalls, cfgVars, fnVars >>

\* a future.result() without a timeout: it waits until the collector has ended
ResultNoTimeout(t, from, k, next) ==
    /\ pc[t] = from
    /\ \/ /\ tasks[k].status = "done"
          /\ local' = [local EXCEPT ![t].acc = @ \o StubResult(k)]
          /\ tasks' = [tasks EXCEPT ![k].status = "finished"]
          /\ UNCHANGED hist
       \/ /\ tasks[k].status = "failed"
          /\ tasks' = [tasks EXCEPT ![k].status = "finished"]
          /\ UNCHANGED << local, hist >>
    /\ Goto(t, next)
    /\ UNCHANGED << candidates, indexed, full_indexed, lock, executor, background_indexing,
                    usage_stats, cache_file, call, ret, ncalls, cfgVars, fnVars >>

\* future.result(timeout=...): the result, the collector's exception, or a timeout
\* (the call is then abandoned: whatever it returns later is discarded).  A call
\* still queued when its result is awaited has every pool thread taken by calls
\* abandoned earlier: its timeout is their consequence, not a fault of its own.
Result(t, from, k, next) ==
    /\ pc[t] = from
    /\ \/ /\ tasks[k].status = "done"
          /\ local' = [local EXCEPT ![t].acc = @ \o StubResult(k)]
          /\ tasks' = [tasks EXCEPT ![k].status = "finished"]
          /\ UNCHANGED hist
       \/ /\ tasks[k].status = "failed"
          /\ tasks' = [tasks EXCEPT ![k].status = "finished"]
          /\ UNCHANGED << local, hist >>
       \/ /\ tasks[k].status \in {"queued", "running"}
          /\ tasks[k].status = "running" => hist.faults < hist.budget
          /\ tasks' = [tasks EXCEPT ![k].abandoned = TRUE]
          /\ hist' = IF tasks[k].status = "running"
                     THEN [hist EXCEPT !.faults = @ + 1, !.failed = @ \cup {k}]
                     ELSE hist
          /\ UNCHANGED local
    /\ Goto(t, next)
    /\ UNCHANGED << candidates, indexed, full_indexed, lock, executor, background_indexing,
                    usage_stats, cache_file, call, ret, ncalls, cfgVars, fnVars >>

(***************************************************************************)
(* _build_quick_index.                                                     *)
(***************************************************************************)
\* a quick build that takes the lock but does not test self._indexed again
QuickEnterNoCheck(t) ==
    /\ pc[t] = "q_lock"
    /\ CanAcquire(t)
    /\ lock' = Acquired(t)
    /\ local' = [local EXCEPT ![t].acc = << >>]
    /\ Goto(t, "q_exec")
    /\ UNCHANGED << candidates, indexed, full_indexed, executor, background_indexing,
                    usage_stats, cache_file, tasks, call, ret, ncalls, hist, cfgVars, fnVars >>

\* with self._lock: if self._indexed: return
QuickEnter(t) ==
    /\ pc[t] = "q_lock"
    /\ CanAcquire(t)
    /\ IF indexed
       THEN /\ Return(t)
            /\ hist' = [hist EXCEPT !.quick_noops = TRUE]
            /\ UNCHANGED << lock, local >>
       ELSE /\ lock' = Acquired(t)
            /\ local' = [local EXCEPT ![t].acc = << >>]
            /\ Goto(t, "q_exec")
            /\ UNCHANGED hist
    /\ UNCHANGED << candidates, indexed, full_indexed, executor, background_indexing,
                    usage_stats, cache_file, tasks, call, ret, ncalls, cfgVars, fnVars >>

\* if not self._executor: ThreadPoolExecutor(max_workers=2)
QuickExecutor(t) ==
    /\ pc[t] = "q_exec"
    /\ executor' = IF executor.created THEN executor
                   ELSE [created |-> TRUE, max_workers |-> 2, shutdown |-> FALSE]
    /\ Goto(t, "q_submit_startmenu")
    /\ UNCHANGED << candidates, indexed, full_indexed, lock, background_indexing,
                    usage_stats, cache_file, tasks, call, local, ret, ncalls, hist,
                    cfgVars, fnVars >>

QuickSubmit(t) ==
    \/ Submit(t, "q_submit_startmenu", "startmenu", "q_submit_path")
    \/ Submit(t, "q_submit_path", "path", "q_result_startmenu")

QuickResult(t) ==
    \/ Result(t, "q_result_startmenu", "startmenu", "q_result_path")
    \/ Result(t, "q_result_path", "path", "q_merge")

\* the cache write of _save_index_cache succeeds or fails (the failure is logged)
SaveOutcomes == IF enable_cache THEN {"written", "failed"} ELSE {"skipped"}

CacheAfterSave(outcome, cands, full) ==
    IF outcome = "written" THEN SavedCache(cands, full) ELSE cache_file

SaveFaults(outcome) == IF outcome = "failed" THEN 1 ELSE 0

\* a quick build whose failed cache write is fatal: the exception leaves the
\* build before the catalog and the flag are set
QuickMergeFatal(t) ==
    /\ pc[t] = "q_merge"
    /\ \E outcome \in SaveOutcomes :
          /\ hist.faults + SaveFaults(outcome) <= hist.budget
          /\ IF outcome = "failed"
             THEN /\ Raise(t)
                  /\ hist' = [hist EXCEPT !.faults = @ + 1]
                  /\ UNCHANGED << candidates, indexed, cache_file >>
             ELSE /\ candidates' = Deduplicate(local[t].acc)
                  /\ indexed' = TRUE
                  /\ cache_file' = CacheAfterSave(outcome, candidates', full_indexed)
                  /\ hist' = [hist EXCEPT !.quick_transitions = @ + 1,
                                          !.quick_catalog =
                                              IF hist.quick_transitions = 0
                                              THEN candidates' ELSE @]
                  /\ lock' = Released(t)
                  /\ Return(t)
                  /\ UNCHANGED ret
    /\ UNCHANGED << full_indexed, executor, background_indexing, usage_stats, tasks,
                    call, local, ncalls, cfgVars, fnVars >>

\* self._candidates = self._deduplicate(candidates); self._indexed = True; save
QuickMerge(t) ==
    /\ pc[t] = "q_merge"
    /\ candidates' = Deduplicate(local[t].acc)
    /\ indexed' = TRUE
    /\ \E outcome \in SaveOutcomes :
          /\ hist.faults + SaveFaults(outcome) <= hist.budget
          /\ cache_file' = CacheAfterSave(outcome, candidates', full_indexed)
          /\ hist' = [hist EXCEPT !.quick_transitions = @ + 1,
                                  !.quick_catalog =
                                      IF hist.quick_transitions = 0 THEN candidates' ELSE @,
                                  !.faults = @ + SaveFaults(outcome)]
    /\ lock' = Released(t)
    /\ Return(t)
    /\ UNCHANGED << full_indexed, executor, background_indexing, usage_stats, tasks,
                    call, local, ret, ncalls, cfgVars, fnVars >>

(***************************************************************************)
(* _build_full_index.                                                      *)
(***************************************************************************)
\* with self._lock: if self._full_indexed: return; if not self._indexed: quick build
FullEnter(t) ==
    /\ pc[t] = "f_lock"
    /\ CanAcquire(t)
    /\ IF full_indexed
       THEN /\ Return(t)
            /\ UNCHANGED << lock, local >>
       ELSE /\ lock' = Acquired(t)
            /\ local' = [local EXCEPT ![t].before = candidates]
            /\ IF indexed THEN Goto(t, "f_exec") ELSE CallFn(t, "q_lock", "f_exec")
    /\ UNCHANGED << candidates, indexed, full_indexed, executor, background_indexing,
                    usage_stats, cache_file, tasks, call, ret, ncalls, hist,
                    cfgVars, fnVars >>

\* if not self._executor: ThreadPoolExecutor(max_workers=3)
FullExecutor(t) ==
    /\ pc[t] = "f_exec"
    /\ executor' = IF executor.created THEN executor
                   ELSE [created |-> TRUE, max_workers |-> 3, shutdown |-> FALSE]
    /\ Goto(t, "f_submit_common_paths")
    /\ UNCHANGED << candidates, indexed, full_indexed, lock, background_indexing,
                    usage_stats, cache_file, tasks, call, local, ret, ncalls, hist,
                    cfgVars, fnVars >>

FullSubmit(t) ==
    \/ Submit(t, "f_submit_common_paths", "common_paths", "f_submit_registry")
    \/ Submit(t, "f_submit_registry", "registry", "f_submit_shortcuts")
    \/ Submit(t, "f_submit_shortcuts", "shortcuts", "f_collect")

\* a full build that starts its list empty instead of from the catalog
FullCollectFresh(t) ==
    /\ pc[t] = "f_collect"
    /\ local' = [local EXCEPT ![t].acc = << >>]
    /\ Goto(t, "f_result_common_paths")
    /\ UNCHANGED << candidates, indexed, full_indexed, lock, executor, background_indexing,
                    usage_stats, cache_file, tasks, call, ret, ncalls, hist,
                    cfgVars, fnVars >>

\* additional_candidates = list(self._candidates)
FullCollect(t) ==
    /\ pc[t] = "f_collect"
    /\ local' = [local EXCEPT ![t].acc = candidates]
    /\ Goto(t, "f_result_common_paths")
    /\ UNCHANGED << candidates, indexed, full_indexed, lock, executor, background_indexing,
                    usage_stats, cache_file, tasks, call, ret, ncalls, hist,
                    cfgVars, fnVars >>

FullResult(t) ==
    \/ Result(t, "f_result_common_paths", "common_paths", "f_result_registry")
    \/ Result(t, "f_result_registry", "registry", "f_result_shortcuts")
    \/ Result(t, "f_result_shortcuts", "shortcuts", "f_merge")

\* self._candidates = self._deduplicate(additional_candidates); self._full_indexed = True; save
FullMerge(t) ==
    /\ pc[t] = "f_merge"
    /\ candidates' = Deduplicate(local[t].acc)
    /\ full_indexed' = TRUE
    /\ \E outcome \in SaveOutcomes :
          /\ hist.faults + SaveFaults(outcome) <= hist.budget
          /\ cache_file' = CacheAfterSave(outcome, candidates', TRUE)
          /\ hist' = [hist EXCEPT !.full_transitions = @ + 1,
                                  !.full_before = local[t].before,
                                  !.faults = @ + SaveFaults(outcome)]
    /\ lock' = Released(t)
    /\ Return(t)
    /\ UNCHANGED << indexed, executor, background_indexing, usage_stats, tasks,
                    call, local, ret, ncalls, cfgVars, fnVars >>

(***************************************************************************)
(* The background thread: _background_index_worker.                        *)
(***************************************************************************)
WorkerQuick ==
    /\ pc[Worker] = "w_start"
    /\ CallFn(Worker, "q_lock", "w_full")
    /\ UNCHANGED << candidates, indexed, full_indexed, lock, executor, background_indexing,
                    usage_stats, cache_file, tasks, call, local, ret, ncalls, hist,
                    cfgVars, fnVars >>

WorkerFull ==
    /\ pc[Worker] = "w_full"
    /\ CallFn(Worker, "f_lock", "w_finally")
    /\ UNCHANGED << candidates, indexed, full_indexed, lock, executor, background_indexing,
                    usage_stats, cache_file, tasks, call, local, ret, ncalls, hist,
                    cfgVars, fnVars >>

\* finally: self._background_indexing = False; the thread ends
WorkerFinally ==
    /\ pc[Worker] = "w_finally"
    /\ background_indexing' = FALSE
    /\ Goto(Worker, "w_done")
    /\ UNCHANGED << candidates, indexed, full_indexed, lock, executor,
                    usage_stats, cache_file, tasks, call, local, ret, ncalls, hist,
                    cfgVars, fnVars >>

WorkerAlive == pc[Worker] \notin {"w_none", "w_done"}

(***************************************************************************)
(* The public API: search, launch, cleanup; _wait_for_indexing.            *)
(***************************************************************************)
\* if not self._indexed: if wait_for_index: self._wait_for_indexing(timeout=5.0)
EntryCheck(c, wait, after, match) ==
    IF indexed THEN pc' = [pc EXCEPT ![c] = match] /\ UNCHANGED frames
    ELSE IF wait THEN CallFn(c, "wait_check", after)
    ELSE pc' = [pc EXCEPT ![c] = after] /\ UNCHANGED frames

\* A caller thread enters search(query, wait_for_index) or launch(query,
\* force_reindex, wait_for_index); the first thing either does is read
\* self._indexed (or branch on force_reindex).  The query is not looked at
\* before the first match, so it is drawn there.
StartCall(c) ==
    /\ pc[c] = "idle"
    /\ ncalls < MaxCalls
    /\ \E kind \in {"search", "launch"}, force \in BOOLEAN, wait \in BOOLEAN :
          /\ kind = "search" => ~force
          /\ force => ~wait
          /\ call' = [call EXCEPT ![c] = [NoCall EXCEPT !.kind = kind, !.limit = DefaultLimit]]
          /\ IF kind = "search"
             THEN EntryCheck(c, wait, "search_after_wait", "search_match")
             ELSE IF force THEN pc' = [pc EXCEPT ![c] = "build_index"] /\ UNCHANGED frames
             ELSE EntryCheck(c, wait, "launch_after_wait", "launch_match")
    /\ ncalls' = ncalls + 1
    /\ UNCHANGED << candidates, indexed, full_indexed, lock, executor, background_indexing,
                    usage_stats, cache_file, tasks, local, ret, hist, cfgVars, fnVars >>

\* the public method has returned (or raised): the caller takes the result
CallReturns(c) ==
    /\ pc[c] = "returned"
    /\ pc' = [pc EXCEPT ![c] = "idle"]
    /\ call' = [call EXCEPT ![c] = NoCall]
    /\ local' = [local EXCEPT ![c] = NoLocal]
    /\ ret' = [ret EXCEPT ![c] = NoRet]
    /\ UNCHANGED << candidates, indexed, full_indexed, lock, executor, background_indexing,
                    usage_stats, cache_file, tasks, frames, ncalls, hist, cfgVars, fnVars >>

\* if not self._indexed: self._build_quick_index()
AfterWait(c) ==
    /\ pc[c] \in {"search_after_wait", "launch_after_wait"}
    /\ LET match == IF pc[c] = "search_after_wait" THEN "search_match" ELSE "launch_match"
       IN  IF indexed THEN Goto(c, match) ELSE CallFn(c, "q_lock", match)
    /\ UNCHANGED << candidates, indexed, full_indexed, lock, executor, background_indexing,
                    usage_stats, cache_file, tasks, call, local, ret, ncalls, hist,
                    cfgVars, fnVars >>

\* _wait_for_indexing: if self._indexed: return True; is_alive() is tested before the join
WaitCheck(c) ==
    /\ pc[c] = "wait_check"
    /\ IF ~indexed /\ WorkerAlive THEN Goto(c, "wait_join") ELSE Return(c)
    /\ UNCHANGED << candidates, indexed, full_indexed, lock, executor, background_indexing,
                    usage_stats, cache_file, tasks, call, local, ret, ncalls, hist,
                    cfgVars, fnVars >>

\* self._index_thread.join(timeout): the thread has ended, or the timeout has elapsed
WaitJoin(c) ==
    /\ pc[c] = "wait_join"
    /\ \/ /\ ~WorkerAlive
          /\ UNCHANGED local
       \/ /\ WorkerAlive
          /\ local' = [local EXCEPT ![c].timed_out = TRUE]
    /\ Return(c)
    /\ UNCHANGED << candidates, indexed, full_indexed, lock, executor, background_indexing,
                    usage_stats, cache_file, tasks, call, ret, ncalls, hist,
                    cfgVars, fnVars >>

\* _fuzzy_match takes the lock unless the stripped query is empty
CanMatch(c, q) == Strip(q) # << >> => CanAcquire(c)

\* return self._fuzzy_match(query, limit=limit)
SearchMatch(c) ==
    /\ pc[c] = "search_match"
    /\ \E q \in Queries :
          /\ CanMatch(c, q)
          /\ call' = [call EXCEPT ![c].query = q]
          /\ ret' = [ret EXCEPT ![c] =
                        [NoRet EXCEPT !.kind = "search",
                                      !.results = FuzzyMatch(pinyin_enabled, usage_stats,
                                                             similarity, q, call[c].limit,
                                                             candidates)]]
    /\ Goto(c, "returned")
    /\ UNCHANGED << candidates, indexed, full_indexed, lock, executor, background_indexing,
                    usage_stats, cache_file, tasks, local, ncalls, hist,
                    cfgVars, fnVars >>

\* a forced re-index that clears both flags before it builds
BuildIndexReset(c) ==
    /\ \/ /\ pc[c] = "build_index"
          /\ indexed' = FALSE
          /\ full_indexed' = FALSE
          /\ CallFn(c, "q_lock", "build_index_full")
       \/ /\ pc[c] = "build_index_full"
          /\ IF full_indexed THEN Goto(c, "launch_match")
             ELSE CallFn(c, "f_lock", "launch_match")
          /\ UNCHANGED << indexed, full_indexed >>
    /\ UNCHANGED << candidates, lock, executor, background_indexing,
                    usage_stats, cache_file, tasks, call, local, ret, ncalls, hist,
                    cfgVars, fnVars >>

\* _build_index: if not self._indexed: quick; if not self._full_indexed: full
BuildIndex(c) ==
    /\ \/ /\ pc[c] = "build_index"
          /\ IF indexed THEN Goto(c, "build_index_full")
             ELSE CallFn(c, "q_lock", "build_index_full")
       \/ /\ pc[c] = "build_index_full"
          /\ IF full_indexed THEN Goto(c, "launch_match")
             ELSE CallFn(c, "f_lock", "launch_match")
    /\ UNCHANGED << candidates, indexed, full_indexed, lock, executor, background_indexing,
                    usage_stats, cache_file, tasks, call, local, ret, ncalls, hist,
                    cfgVars, fnVars >>

\* candidate = self._match_program(query), first and after the full build
LaunchMatch(c) ==
    /\ pc[c] \in {"launch_match", "launch_rematch"}
    /\ \E q \in Queries :
          /\ pc[c] = "launch_rematch" => q = call[c].query
          /\ CanMatch(c, q)
          /\ call' = [call EXCEPT ![c].query = q]
          /\ LET found == MatchProgram(pinyin_enabled, usage_stats, similarity, q, candidates)
             IN  /\ local' = [local EXCEPT ![c].found = found,
                                           ![c].matched_full = full_indexed]
                 /\ IF found # << >> THEN Goto(c, "launch_start")
                    ELSE IF pc[c] = "launch_match" THEN Goto(c, "launch_miss")
                    ELSE Goto(c, "launch_not_found")
    /\ UNCHANGED << candidates, indexed, full_indexed, lock, executor, background_indexing,
                    usage_stats, cache_file, tasks, ret, ncalls, hist,
                    cfgVars, fnVars >>

\* if not self._full_indexed: self._build_full_index(); match again
LaunchMiss(c) ==
    /\ pc[c] = "launch_miss"
    /\ IF full_indexed THEN Goto(c, "launch_not_found")
       ELSE CallFn(c, "f_lock", "launch_rematch")
    /\ UNCHANGED << candidates, indexed, full_indexed, lock, executor, background_indexing,
                    usage_stats, cache_file, tasks, call, local, ret, ncalls, hist,
                    cfgVars, fnVars >>

\* return (not found message, 1)
LaunchNotFound(c) ==
    /\ pc[c] = "launch_not_found"
    /\ ret' = [ret EXCEPT ![c] =
                  [NoRet EXCEPT !.kind = "launch", !.message = "not_found", !.code = 1]]
    /\ Goto(c, "returned")
    /\ UNCHANGED << candidates, indexed, full_indexed, lock, executor, background_indexing,
                    usage_stats, cache_file, tasks, call, local, ncalls, hist,
                    cfgVars, fnVars >>

\* a launch that updates the usage count whatever the process start reports
StartProgramCountsAll(c) ==
    /\ pc[c] = "launch_start"
    /\ \E outcome \in { [message |-> "started", code |-> 0],
                        [message |-> "started", code |-> 1],
                        [message |-> "path_invalid", code |-> 1] } :
          /\ ret' = [ret EXCEPT ![c] =
                        [NoRet EXCEPT !.kind = "launch", !.results = local[c].found,
                                      !.message = outcome.message, !.code = outcome.code]]
          /\ local' = IF outcome.code = 0
                      THEN [local EXCEPT ![c].usage_before =
                               UsageOf(usage_stats, local[c].found[1].display_name)]
                      ELSE local
          /\ IF enable_cache
             THEN Goto(c, "usage_read")
             ELSE Goto(c, "returned")
    /\ UNCHANGED << candidates, indexed, full_indexed, lock, executor, background_indexing,
                    usage_stats, cache_file, tasks, call, ncalls, hist,
                    cfgVars, fnVars >>

\* _start_program: the process-start capability reports status 0 or not, or the
\* path is invalid; usage is updated only after status 0
StartProgram(c) ==
    /\ pc[c] = "launch_start"
    /\ \E outcome \in { [message |-> "started", code |-> 0],
                        [message |-> "started", code |-> 1],
                        [message |-> "path_invalid", code |-> 1] } :
          /\ ret' = [ret EXCEPT ![c] =
                        [NoRet EXCEPT !.kind = "launch", !.results = local[c].found,
                                      !.message = outcome.message, !.code = outcome.code]]
          /\ local' = IF outcome.code = 0
                      THEN [local EXCEPT ![c].usage_before =
                               UsageOf(usage_stats, local[c].found[1].display_name)]
                      ELSE local
          /\ IF outcome.code = 0 /\ enable_cache
             THEN Goto(c, "usage_read")
             ELSE Goto(c, "returned")
    /\ UNCHANGED << candidates, indexed, full_indexed, lock, executor, background_indexing,
                    usage_stats, cache_file, tasks, call, ncalls, hist,
                    cfgVars, fnVars >>

\* _update_usage: self._usage_stats.get(program_name, 0) ...
UsageRead(c) ==
    /\ pc[c] = "usage_read"
    /\ local' = [local EXCEPT ![c].count = UsageOf(usage_stats, local[c].found[1].display_name)]
    /\ Goto(c, "usage_write")
    /\ UNCHANGED << candidates, indexed, full_indexed, lock, executor, background_indexing,
                    usage_stats, cache_file, tasks, call, ret, ncalls, hist,
                    cfgVars, fnVars >>

\* ... self._usage_stats[program_name] = ... + 1
UsageWrite(c) ==
    /\ pc[c] = "usage_write"
    /\ LET name == local[c].found[1].display_name
       IN  usage_stats' = [n \in DOMAIN usage_stats \cup {name} |->
                              IF n = name THEN local[c].count + 1 ELSE usage_stats[n]]
    /\ Goto(c, "returned")
    /\ UNCHANGED << candidates, indexed, full_indexed, lock, executor, background_indexing,
                    cache_file, tasks, call, local, ret, ncalls, hist,
                    cfgVars, fnVars >>

\* cleanup: if self._executor: self._executor.shutdown(wait=False)
Cleanup ==
    /\ ~hist.cleaned
    /\ executor' = IF executor.created THEN [executor EXCEPT !.shutdown = TRUE] ELSE executor
    /\ hist' = [hist EXCEPT !.cleaned = TRUE]
    /\ UNCHANGED << candidates, indexed, full_indexed, lock, background_indexing,
                    usage_stats, cache_file, tasks, pc, frames, call, local, ret, ncalls,
                    cfgVars, fnVars >>

(***************************************************************************)
(* The launcher: every thread step, collector event and API call.          *)
(***************************************************************************)
BuildStep(t) ==
    \/ QuickEnter(t)
    \/ QuickExecutor(t)
    \/ QuickSubmit(t)
    \/ QuickResult(t)
    \/ QuickMerge(t)
    \/ FullEnter(t)
    \/ FullExecutor(t)
    \/ FullSubmit(t)
    \/ FullCollect(t)
    \/ FullResult(t)
    \/ FullMerge(t)

CallerStep(c) ==
    \/ StartCall(c)
    \/ CallReturns(c)
    \/ AfterWait(c)
    \/ WaitCheck(c)
    \/ WaitJoin(c)
    \/ SearchMatch(c)
    \/ BuildIndex(c)
    \/ LaunchMatch(c)
    \/ LaunchMiss(c)
    \/ LaunchNotFound(c)
    \/ StartProgram(c)
    \/ UsageRead(c)
    \/ UsageWrite(c)

WorkerStep == WorkerQuick \/ WorkerFull \/ WorkerFinally

Next ==
    \/ \E t \in Threads : BuildStep(t)
    \/ \E c \in Callers : CallerStep(c)
    \/ WorkerStep
    \/ \E k \in Collectors : CollectorReturns(k) \/ CollectorRaises(k)
    \/ Cleanup

Spec == Init /\ [][Next]_vars

(***************************************************************************)
(* Properties of the index build (specification Spec).                     *)
(***************************************************************************)
\* IndexState: 0 NotIndexed, 1 QuickIndexed, 2 FullIndexed
IndexRank == IF full_indexed THEN 2 ELSE IF indexed THEN 1 ELSE 0

IsPrefix(s, t) == Len(s) <= Len(t) /\ SubSeq(t, 1, Len(s)) = s

PathKeys(s) == {Lower(s[i].executable_path) : i \in 1..Len(s)}

\* C1: however the worker and a search/launch caller race into the quick
\* build, there is at most one NotIndexed -> QuickIndexed transition, each quick
\* collector is invoked at most once, the engine is QuickIndexed exactly when
\* the cache load or that one transition made it so, and until the full build
\* the catalog is the one the single transition produced.
C1_OneQuickTransition ==
    /\ hist.quick_transitions <= 1
    /\ \A i \in 1..Len(QuickCollectors) : hist.submitted[QuickCollectors[i]] <= 1
    /\ indexed = (hist.cache_indexed \/ hist.quick_transitions = 1)
    /\ (hist.quick_transitions = 1 /\ hist.full_transitions = 0)
          => candidates = hist.quick_catalog

\* a caller that found the engine NotIndexed entered the quick build after the
\* worker's build had made the transition, and returned from it
C1_Witness ==
    /\ hist.quick_noops
    /\ hist.quick_transitions = 1
    /\ hist.submitted["startmenu"] = 1 /\ hist.submitted["path"] = 1
    /\ pc["c1"] = "returned"
    /\ ~hist.cache_indexed

\* C2: no step of construction's successors (search, launch, worker,
\* collector events, cleanup) moves IndexState backward; FullIndexed is never left.
C2_StateOnlyForward == [][IndexRank' >= IndexRank]_vars

\* both transitions were taken, calls were issued and cleanup was called
C2_Witness ==
    /\ hist.quick_transitions = 1
    /\ hist.full_transitions = 1
    /\ hist.cleaned
    /\ ncalls = MaxCalls
    /\ IndexRank = 2

\* a thread that waits in future.result() for a collector while it owns the lock
HoldsLockInResult(t) == pc[t] \in ResultPcs /\ lock.owner = t

\* C3: the lock is never held while a collector call is in flight, so a
\* search or launch that has reached its ranking step is never kept out of the
\* lock by a build that is waiting for a collector.
C3_NoLockAcrossCollectors ==
    \A c \in Callers :
        pc[c] \in {"search_match", "launch_match", "launch_rematch"}
            => \A t \in Threads \ {c} : ~HoldsLockInResult(t)

\* C4: once the bounded wait of a search has timed out, the search goes on
\* without waiting for the worker's build: neither its own quick build nor its
\* ranking step finds the lock held by the worker waiting for a collector.
C4_SearchAfterTimeoutNotBlocked ==
    \A c \in Callers :
        (call[c].kind = "search" /\ local[c].timed_out
            /\ pc[c] \in {"q_lock", "search_match"})
            => ~HoldsLockInResult(Worker)

\* C5: with background indexing on (enable_cache and auto_index), no query
\* issued and no cleanup, the worker brings the engine to FullIndexed; so in any
\* such state where no worker is running (none was started, or it has ended)
\* the engine is FullIndexed already.
C5_WorkerReachesFull ==
    (enable_cache /\ auto_index /\ ncalls = 0 /\ ~hist.cleaned /\ ~WorkerAlive)
        => full_indexed

\* C7: after the full build the catalog begins with the catalog as it was
\* when the build began, entry for entry, and what follows are candidates with
\* path keys that were not in it, one per key.
C7_FullBuildKeepsExisting ==
    hist.full_transitions >= 1 =>
        /\ IsPrefix(hist.full_before, candidates)
        /\ \A i \in (Len(hist.full_before) + 1)..Len(candidates) :
              /\ Lower(candidates[i].executable_path) \notin PathKeys(hist.full_before)
              /\ \A j \in 1..(i - 1) :
                    Lower(candidates[j].executable_path)
                        # Lower(candidates[i].executable_path)

\* the full build ran over a quick catalog, dropped the full-phase finds
\* D\CM.x and D\vl.x whose keys were taken, and added d\vl.x and d\ed.x
C7_Witness ==
    /\ hist.full_transitions = 1
    /\ hist.full_before = QuickSnapshot
    /\ candidates = FullSnapshot
    /\ hist.quick_transitions = 1

(***************************************************************************)
(* Harness for the pure functions: the launcher stays as constructed with  *)
(* the cache and background indexing off; Init draws the arguments and the *)
(* one action applies the function.                                        *)
(***************************************************************************)
launcherVars ==
    << candidates, indexed, full_indexed, lock, executor, background_indexing,
       usage_stats, enable_cache, auto_index, pinyin_enabled, cache_file, similarity,
       tasks, pc, frames, call, local, ret, ncalls, hist >>

LauncherIdle ==
    /\ enable_cache = FALSE
    /\ auto_index = FALSE
    /\ pinyin_enabled = TRUE
    /\ similarity = << >>
    /\ cache_file = NoCacheFile
    /\ candidates = << >>
    /\ indexed = FALSE
    /\ full_indexed = FALSE
    /\ background_indexing = FALSE
    /\ pc = [t \in Threads |-> IF t = Worker THEN "w_none" ELSE "idle"]
    /\ lock = [owner |-> "none", count |-> 0]
    /\ executor = NoExecutor
    /\ usage_stats = << >>
    /\ tasks = [k \in Collectors |-> NoTask]
    /\ frames = [t \in Threads |-> << >>]
    /\ call = [c \in Callers |-> NoCall]
    /\ local = [t \in Threads |-> NoLocal]
    /\ ret = [c \in Callers |-> NoRet]
    /\ ncalls = 0
    /\ hist = NoHist

SeqsUpTo(S, n) == UNION {[1..k -> S] : k \in 0..n}

(***************************************************************************)
(* _deduplicate on arbitrary candidate lists (specification SpecDedup).    *)
(***************************************************************************)
MaxDedupLen == 3

\* two paths that differ only in letter case, a third path, two empty paths
DedupPool ==
    { ProgramCandidate(<< "a" >>, << "d", "\\", "a" >>, "startmenu", << >>, "appid"),
      ProgramCandidate(<< "b" >>, << "D", "\\", "A" >>, "path", << "a" >>, "none"),
      ProgramCandidate(<< "a" >>, << "d", "\\", "b" >>, "scan", << >>, "none"),
      ProgramCandidate(<< "c" >>, << >>, "registry", << >>, "none"),
      ProgramCandidate(<< "d" >>, << >>, "shortcut", << >>, "none") }

InitDedup ==
    /\ LauncherIdle
    /\ fn = "none"
    /\ fn_in \in SeqsUpTo(DedupPool, MaxDedupLen)
    /\ fn_out = << >>

DeduplicateCall ==
    /\ fn = "none"
    /\ fn' = "_deduplicate"
    /\ fn_out' = Deduplicate(fn_in)
    /\ UNCHANGED << fn_in, launcherVars >>

NextDedup == DeduplicateCall

SpecDedup == InitDedup /\ [][NextDedup]_vars

\* the positions of a list that hold the first candidate of their path key
FirstOfKey(in) ==
    {i \in 1..Len(in) :
        \A j \in 1..(i - 1) : Lower(in[j].executable_path) # Lower(in[i].executable_path)}

\* C6: the result of _deduplicate holds, for every case-insensitive path key
\* of the input, exactly the first candidate with that key, whole and unmerged,
\* and these first candidates stand in the order they had in the input.
C6_FirstPerKeyInOrder ==
    fn = "_deduplicate" =>
        /\ Len(fn_out) = Cardinality(FirstOfKey(fn_in))
        /\ \A i \in FirstOfKey(fn_in) :
              fn_out[Cardinality({j \in FirstOfKey(fn_in) : j <= i})] = fn_in[i]

\* d\a, d\b, D\A in: the third shares the key of the first and is dropped
C6_Witness ==
    /\ fn = "_deduplicate"
    /\ Len(fn_in) = 3
    /\ fn_in[1].executable_path # fn_in[3].executable_path
    /\ Lower(fn_in[1].executable_path) = Lower(fn_in[3].executable_path)
    /\ fn_in[1].display_name # fn_in[3].display_name
    /\ Lower(fn_in[2].executable_path) # Lower(fn_in[1].executable_path)
    /\ fn_out = << fn_in[1], fn_in[2] >>

(***************************************************************************)
(* match_score on short names and queries (specification SpecScore).       *)
(***************************************************************************)
MaxNameLen == 2

MaxQueryLen == 2

NameChars == {"a", "n", "A", " ", "<an>", "<nan>"}

QueryChars == {"a", "n", "A", " "}

InitScore ==
    /\ LauncherIdle
    /\ fn = "none"
    /\ fn_in \in [enabled : BOOLEAN,
                   query : SeqsUpTo(QueryChars, MaxQueryLen),
                   name : SeqsUpTo(NameChars, MaxNameLen)]
    /\ fn_out = << >>

MatchScoreCall ==
    /\ fn = "none"
    /\ fn' = "match_score"
    /\ fn_out' = << match_score(fn_in.enabled, fn_in.query, fn_in.name) >>
    /\ UNCHANGED << fn_in, launcherVars >>

NextScore == MatchScoreCall

SpecScore == InitScore /\ [][NextScore]_vars

\* the rules in the priority order of the table: 100, 90, 85, 75, 60, 55, 50, 0
\* (the phonetic rules apply only with the phonetic capability)
PriorityOrderScore(enabled, query, target) ==
    LET q  == Strip(Lower(query))
        t  == Strip(Lower(target))
        tp == to_pinyin_full(enabled, t)
        ti == to_pinyin_initials(enabled, t)
    IN  IF q = t THEN 100
        ELSE IF StartsWith(t, q) THEN 90
        ELSE IF enabled /\ (q = tp \/ StartsWith(tp, q)) THEN 85
        ELSE IF enabled /\ (q = ti \/ StartsWith(ti, q)) THEN 75
        ELSE IF Contains(t, q) THEN 60
        ELSE IF enabled /\ Contains(tp, q) THEN 55
        ELSE IF enabled /\ Contains(ti, q) THEN 50
        ELSE 0

\* C8: match_score returns the score of the first rule that matches in the
\* order equals 100, prefix 90, full reading equals or starts 85, initials
\* equal or start 75, substring 60, full reading contains 55, initials
\* contain 50, else 0.
C8_PriorityOrder ==
    fn = "match_score" =>
        fn_out = << PriorityOrderScore(fn_in.enabled, fn_in.query, fn_in.name) >>

(***************************************************************************)
(* _fuzzy_match on small catalogs (specification SpecRank).                *)
(***************************************************************************)
MaxCands == 3

MaxLimit == 2

RankPool ==
    { ProgramCandidate(<< "n", "p" >>, << "d", "\\", "n", "p", ".", "x" >>, "startmenu",
                       << >>, "none"),
      ProgramCandidate(<< "x", "n", "p" >>, << "d", "\\", "b", ".", "x" >>, "path",
                       << >>, "none"),
      ProgramCandidate(<< "<nan>" >>, << "d", "\\", "c", ".", "x" >>, "scan", << >>, "none"),
      ProgramCandidate(<< "z", "z" >>, << >>, "registry", << >>, "none") }

RankQueries == { << "n", "p" >>, << " ", "n" >>, << "a" >>, << "q" >> }

\* launch counts of the two names that have any
UsageCounts == {0, 3, 16}

RankStats == [{<< "x", "n", "p" >>, << "<nan>" >>} -> UsageCounts]

RankNames == UNION {all_names(c) : c \in RankPool}

\* stubs of the similarity scorer: nothing similar, everything similar (70),
\* and one that prefers "zz" (90) to "xnp" (65) to the rest (30)
RankSimilarities ==
    { << >>,
      [p \in {Strip(q) : q \in RankQueries} \X RankNames |-> 70],
      [p \in {Strip(q) : q \in RankQueries} \X RankNames |->
          IF p[2] = << "z", "z" >> THEN 90
          ELSE IF p[2] = << "x", "n", "p" >> THEN 65 ELSE 30] }

\* catalogs: lists of distinct candidates
RankCatalogs ==
    {s \in SeqsUpTo(RankPool, MaxCands) : \A i, j \in 1..Len(s) : i # j => s[i] # s[j]}

InitRank ==
    /\ LauncherIdle
    /\ fn = "none"
    /\ fn_in \in [cands : RankCatalogs, stats : RankStats, sim : RankSimilarities,
                   query : RankQueries, limit : 0..MaxLimit]
    /\ fn_out = << >>

FuzzyMatchCall ==
    /\ fn = "none"
    /\ fn' = "_fuzzy_match"
    /\ fn_out' = FuzzyMatch(pinyin_enabled, fn_in.stats, fn_in.sim, fn_in.query,
                            fn_in.limit, fn_in.cands)
    /\ UNCHANGED << fn_in, launcherVars >>

NextRank == FuzzyMatchCall

SpecRank == InitRank /\ [][NextRank]_vars

\* per-candidate score and ranking score of a candidate for the call in fn_in
PerCandidate(c) == CandidateScore(pinyin_enabled, Strip(fn_in.query), c)

Ranking(c) == PerCandidate(c) + 2 * UsageOf(fn_in.stats, c.display_name)

\* the candidates of the primary ranking: per-candidate score above 0
Ranked == {c \in SeqToSet(fn_in.cands) : PerCandidate(c) > 0}

\* C9: when the primary ranking is not empty the result lists candidates of
\* it in descending order of (max over all_names of the per-name score) +
\* 2 x usage count, and holds the best `limit` of them: a candidate with a
\* strictly greater ranking score than a returned one is returned before it.
C9_DescendingRankingScore ==
    (fn = "_fuzzy_match" /\ Ranked # {}) =>
        /\ \A i \in 1..Len(fn_out) : fn_out[i] \in Ranked
        /\ \A i, j \in 1..Len(fn_out) : i < j => Ranking(fn_out[i]) >= Ranking(fn_out[j])
        /\ Len(fn_out) = Min(fn_in.limit, Cardinality(Ranked))
        /\ \A c \in Ranked : \A j \in 1..Len(fn_out) :
              Ranking(c) > Ranking(fn_out[j]) => \E i \in 1..(j - 1) : fn_out[i] = c

\* a candidate with the lower per-candidate score but launches to its name
\* comes before one with the higher per-candidate score and no launches
C9_Witness ==
    /\ fn = "_fuzzy_match"
    /\ Len(fn_out) = 2
    /\ PerCandidate(fn_out[1]) = 60
    /\ PerCandidate(fn_out[2]) = 90
    /\ UsageOf(fn_in.stats, fn_out[1].display_name) = 16
    /\ UsageOf(fn_in.stats, fn_out[2].display_name) = 0

\* the primary ranking cut to the limit
PrimaryResult ==
    LET scored == Take(ScoredCandidates(pinyin_enabled, fn_in.stats, Strip(fn_in.query),
                                        fn_in.cands), fn_in.limit)
    IN  [i \in 1..Len(scored) |-> scored[i].candidate]

\* C10: when some candidate of the primary ranking has ranking score 50 or
\* more, the result is the primary ranking whatever the similarity scorer says.
C10_FallbackOnlyBelow50 ==
    (fn = "_fuzzy_match" /\ \E c \in Ranked : Ranking(c) >= 50) => fn_out = PrimaryResult

\* the similarity scorer would have put other candidates first, and the top
\* primary score is 55, yet the result is the primary ranking
C10_Witness ==
    /\ fn = "_fuzzy_match"
    /\ \A c \in Ranked : Ranking(c) = 55
    /\ Ranked # {}
    /\ LET fallback == FallbackFuzzyMatch(fn_in.sim, Strip(fn_in.query), fn_in.limit,
                                          fn_in.cands)
       IN  fallback # << >> /\ fallback # PrimaryResult
    /\ fn_out = PrimaryResult

\* every name of the catalog with its similarity, best first, not cut
AllNameMatches ==
    LET table == NameTable(fn_in.cands)
    IN  SortByScoreDesc([i \in 1..Len(table) |->
            [score |-> Similarity(fn_in.sim, Strip(fn_in.query), table[i].name),
             candidate |-> table[i].candidate]])

\* C11: when the fallback runs (no candidate has a per-candidate score above
\* 0), the result is the first `limit` distinct candidates, in descending
\* similarity order, among those with a name of similarity 60 or more: the
\* names are filtered and deduplicated by candidate before the cut to `limit`.
C11_FallbackDedupBeforeCut ==
    (fn = "_fuzzy_match" /\ Ranked = {}) =>
        fn_out = Take(FallbackLoop(AllNameMatches, 1, << >>), fn_in.limit)

\* what _match_program returns for the arguments in fn_in
MatchOfCall ==
    MatchProgram(pinyin_enabled, fn_in.stats, fn_in.sim, fn_in.query, fn_in.cands)

\* C12: search returns at most `limit` candidates (limit 0 included), by the
\* primary and by the fallback path, and the candidate _match_program chooses
\* is the first element of search(query, limit=1), none when that is empty.
C12_AtMostLimit ==
    fn = "_fuzzy_match" =>
        /\ Len(fn_out) <= fn_in.limit
        /\ fn_in.limit = 1 =>
              MatchOfCall = (IF fn_out = << >> THEN << >> ELSE << fn_out[1] >>)

\* a primary ranking of three candidates cut to one, the one launch would start
C12_Witness ==
    /\ fn = "_fuzzy_match"
    /\ Cardinality(Ranked) = 3
    /\ fn_in.limit = 1
    /\ Len(fn_out) = 1
    /\ MatchOfCall = fn_out

(***************************************************************************)
(* Construction over arbitrary cache files (specification SpecCache):      *)
(* Init is the object before the cache is read, the one action is the rest *)
(* of __init__ (load the cache, start the worker).                         *)
(***************************************************************************)
\* ages around the 12 hours, in seconds
CacheAges == {0, 3600, 43199, 43200, 43201, 46800}

\* an entry without the executable_path key, and an entry that is no object
MalformedSnapshot ==
    << ToItem(StubResult("startmenu")[1]),
       [ToItem(StubResult("path")[2]) EXCEPT !.missing = {"executable_path", "source"}],
       [ToItem(StubResult("shortcuts")[1]) EXCEPT !.valid = FALSE] >>

CacheSnapshots ==
    { << >>, CacheRecord(0, FALSE, QuickSnapshot).candidates,
      CacheRecord(0, TRUE, FullSnapshot).candidates, MalformedSnapshot }

CacheInputs ==
    { NoCacheFile, [NoCacheFile EXCEPT !.exists = TRUE, !.corrupt = TRUE] }
    \cup { [CacheRecord(a, f, << >>) EXCEPT !.candidates = items] :
              a \in CacheAges, f \in BOOLEAN, items \in CacheSnapshots }
    \cup { [CacheRecord(0, f, << >>) EXCEPT !.candidates = items, !.has_timestamp = FALSE] :
              f \in BOOLEAN, items \in CacheSnapshots }

InitCache ==
    /\ enable_cache = TRUE
    /\ auto_index \in BOOLEAN
    /\ pinyin_enabled = TRUE
    /\ similarity = << >>
    /\ cache_file \in CacheInputs
    /\ candidates = << >>
    /\ indexed = FALSE
    /\ full_indexed = FALSE
    /\ background_indexing = FALSE
    /\ pc = [t \in Threads |-> IF t = Worker THEN "w_none" ELSE "idle"]
    /\ lock = [owner |-> "none", count |-> 0]
    /\ executor = NoExecutor
    /\ usage_stats = << >>
    /\ tasks = [k \in Collectors |-> NoTask]
    /\ frames = [t \in Threads |-> << >>]
    /\ call = [c \in Callers |-> NoCall]
    /\ local = [t \in Threads |-> NoLocal]
    /\ ret = [c \in Callers |-> NoRet]
    /\ ncalls = 0
    /\ hist = NoHist
    /\ fn = "none"
    /\ fn_in = << >>
    /\ fn_out = << >>

\* if enable_cache: self._load_index_cache(); if auto_index and enable_cache:
\* self._start_background_indexing()
Construct ==
    /\ fn = "none"
    /\ fn' = "__init__"
    /\ LET load == LoadIndexCache(cache_file)
       IN  /\ candidates' = load.candidates
           /\ indexed' = load.indexed
           /\ full_indexed' = load.full_indexed
           /\ fn_out' = << load.loaded >>
           /\ background_indexing' = StartsWorker(enable_cache, auto_index, load.indexed)
           /\ pc' = [pc EXCEPT ![Worker] =
                        IF StartsWorker(enable_cache, auto_index, load.indexed)
                        THEN "w_start" ELSE "w_none"]
           /\ hist' = [hist EXCEPT !.cache_indexed = load.indexed]
    /\ UNCHANGED << lock, executor, usage_stats, cache_file, tasks, frames, call, local,
                    ret, ncalls, cfgVars, fn_in >>

NextCache == Construct

SpecCache == InitCache /\ [][NextCache]_vars

\* the record has at least one entry that is a JSON object
HasObjectEntry(file) == \E i \in 1..Len(file.candidates) : file.candidates[i].valid

\* C13: a readable cache record with a non-empty snapshot is accepted
\* (load returns True, the engine is indexed and holds the entries) exactly
\* when it has a timestamp and its age is at most 12 hours (43200 s).
C13_AcceptedUpTo12Hours ==
    (fn = "__init__" /\ cache_file.exists /\ ~cache_file.corrupt
        /\ HasObjectEntry(cache_file)) =>
        /\ fn_out = << cache_file.has_timestamp /\ cache_file.age <= 12 * 3600 >>
        /\ indexed = fn_out[1]
        /\ (candidates # << >>) = fn_out[1]

\* a record exactly 12 hours old is accepted
C13_Witness ==
    /\ fn = "__init__"
    /\ cache_file.exists /\ cache_file.has_timestamp
    /\ cache_file.age = 43200
    /\ cache_file.candidates = CacheRecord(0, FALSE, QuickSnapshot).candidates
    /\ fn_out = << TRUE >>
    /\ candidates = QuickSnapshot

\* C14: when the cache record is not valid (no file, corrupt, older than 12
\* hours, or an empty snapshot) construction ends in a cold start: the engine
\* is NotIndexed with an empty catalog, so the next quick build runs.
C14_InvalidCacheColdStart ==
    (fn = "__init__"
        /\ (~cache_file.exists \/ cache_file.corrupt
            \/ CacheAge(cache_file) > 12 * 3600 \/ cache_file.candidates = << >>)) =>
        (~indexed /\ ~full_indexed /\ candidates = << >>)

\* C15: every candidate in the catalog has a non-empty path key, also after
\* a cache record with entries that lack executable_path was loaded.
C15_NoEmptyPathKey ==
    \A i \in 1..Len(candidates) : Lower(candidates[i].executable_path) # << >>


(***************************************************************************)
(* The launcher without its cache: ChineseLauncher(enable_cache=False).    *)
(* No cache is read or written, no background thread is started (line      *)
(* 234), so every build is made by the calling thread; the collectors may  *)
(* fail more often than in Spec.                                           *)
(***************************************************************************)
MaxSyncFaults == 2

InitSync ==
    /\ enable_cache = FALSE
    /\ auto_index \in BOOLEAN
    /\ pinyin_enabled = TRUE
    /\ similarity = << >>
    /\ cache_file = NoCacheFile
    /\ candidates = << >>
    /\ indexed = FALSE
    /\ full_indexed = FALSE
    /\ background_indexing = StartsWorker(enable_cache, auto_index, indexed)
    /\ pc = [t \in Threads |-> IF t = Worker THEN "w_none" ELSE "idle"]
    /\ lock = [owner |-> "none", count |-> 0]
    /\ executor = NoExecutor
    /\ usage_stats = << >>
    /\ tasks = [k \in Collectors |-> NoTask]
    /\ frames = [t \in Threads |-> << >>]
    /\ call = [c \in Callers |-> NoCall]
    /\ local = [t \in Threads |-> NoLocal]
    /\ ret = [c \in Callers |-> NoRet]
    /\ ncalls = 0
    /\ hist = [NoHist EXCEPT !.budget = MaxSyncFaults]
    /\ FnIdle

\* the steps of a caller when no worker exists: join() is never reached, and
\* _update_usage returns at once
SyncStep(c) ==
    \/ BuildStep(c)
    \/ StartCall(c)
    \/ CallReturns(c)
    \/ AfterWait(c)
    \/ WaitCheck(c)
    \/ SearchMatch(c)
    \/ BuildIndex(c)
    \/ LaunchMatch(c)
    \/ LaunchMiss(c)
    \/ LaunchNotFound(c)
    \/ StartProgram(c)

NextSync ==
    \/ \E c \in Callers : SyncStep(c)
    \/ \E k \in Collectors : CollectorReturns(k) \/ CollectorRaises(k)
    \/ Cleanup

SpecSync == InitSync /\ [][NextSync]_vars

\* the build phase of collector k has made its transition
PhaseDone(k) ==
    IF k \in SeqToSet(QuickCollectors) THEN hist.quick_transitions > 0
    ELSE hist.full_transitions > 0

\* C16: collector failures are isolated: once a build phase has made its
\* transition, every collector of the phase that did not itself raise or run
\* past its timeout has its result in the catalog, whatever the other
\* collectors of this or of an earlier phase did.
C16_FailuresIsolated ==
    \A k \in Collectors :
        (PhaseDone(k) /\ k \notin hist.failed) =>
            PathKeys(StubResult(k)) \subseteq PathKeys(candidates)


\* the query matches no program, not even in the complete catalog
MatchesNothing(q) ==
    MatchProgram(pinyin_enabled, usage_stats, similarity, q, FullSnapshot) = << >>

\* C17: in every reachable state, also after cleanup(), a launch whose query
\* matches nothing returns the not-found message with a non-zero status code
\* and does not raise an exception to its caller.
C17_NoMatchReturnsNotFound ==
    \A c \in Callers :
        (/\ pc[c] = "returned"
         /\ call[c].kind = "launch"
         /\ call[c].query # << >>
         /\ MatchesNothing(call[c].query)) =>
            /\ ret[c].kind = "launch"
            /\ ret[c].message = "not_found"
            /\ ret[c].code # 0


\* C18: launch reports not-found only after the full catalog has been
\* consulted: whenever launch returns the not-found result, the index is
\* FullIndexed and the last match of the query ranked the catalog as it stood
\* after the full build.
C18_NotFoundAfterFullCatalog ==
    \A c \in Callers :
        (pc[c] = "returned" /\ ret[c].message = "not_found") =>
            full_indexed /\ local[c].matched_full


\* C19: a search for a non-empty query that finds no acceptable match while the
\* index is not FullIndexed makes a full build and ranks again before it
\* returns: search returns an empty list for such a query only when the index
\* is FullIndexed.
C19_SearchMissBuildsFull ==
    \A c \in Callers :
        (/\ pc[c] = "returned"
         /\ ret[c].kind = "search"
         /\ Strip(call[c].query) # << >>
         /\ ret[c].results = << >>) => full_indexed


(***************************************************************************)
(* Scheduling.  Every thread that can take a step eventually takes one.    *)
(* A collector need never end: future.result(timeout=30/60) then gives up  *)
(* on it.  Only once the faults of the run are used up does a collector    *)
(* that a build still waits for end by itself.                             *)
(***************************************************************************)
CollectorCompletes(k) ==
    /\ hist.faults >= hist.budget
    /\ ~tasks[k].abandoned
    /\ CollectorReturns(k)

\* the steps of a build, of a caller and of the worker that rank or merge
\* nothing: everything but the merges and the matches
LightStep(t) ==
    \/ QuickEnter(t)
    \/ QuickExecutor(t)
    \/ QuickSubmit(t)
    \/ QuickResult(t)
    \/ FullEnter(t)
    \/ FullExecutor(t)
    \/ FullSubmit(t)
    \/ FullCollect(t)
    \/ FullResult(t)
    \/ (t = Worker /\ WorkerStep)
    \/ (t \in Callers /\ \/ StartCall(t)
                         \/ CallReturns(t)
                         \/ AfterWait(t)
                         \/ WaitCheck(t)
                         \/ WaitJoin(t)
                         \/ BuildIndex(t)
                         \/ LaunchMiss(t)
                         \/ LaunchNotFound(t)
                         \/ StartProgram(t)
                         \/ UsageRead(t)
                         \/ UsageWrite(t))

\* the merges (QuickMerge, FullMerge) and the matches (SearchMatch, LaunchMatch):
\* a merge can always be taken, a match once the thread can take the lock
MergePcs == {"q_merge", "f_merge"}

MatchPcs == {"search_match", "launch_match", "launch_rematch"}

HeavyEnabled(t) ==
    \/ pc[t] \in MergePcs
    \/ pc[t] \in MatchPcs /\ \E q \in Queries : CanMatch(t, q)

\* weak fairness of the merge or match of thread t, with its ENABLED written
\* out as HeavyEnabled(t); the step is the one that moves t from that position
HeavyFair(t) ==
    \/ []<>(~HeavyEnabled(t))
    \/ []<><<pc[t] \in MergePcs \cup MatchPcs /\ pc'[t] # pc[t]>>_vars

Fairness ==
    /\ \A t \in Threads : WF_vars(LightStep(t))
    /\ \A t \in Threads : HeavyFair(t)
    /\ WF_vars(\E k \in Collectors : CollectorCompletes(k))

FairSpec == Init /\ [][Next]_vars /\ Fairness

\* C20: every search and launch call eventually returns (or raises), whatever
\* the collectors do, one that never completes included, and however the call
\* interleaves with the background worker.
C20_EveryCallReturns ==
    \A c \in Callers : (pc[c] # "idle") ~> (pc[c] = "returned")


\* a call has returned although its wait for the worker timed out and a
\* collector that a build gave up on is still running
C20_Witness ==
    \E c \in Callers :
        /\ pc[c] = "returned"
        /\ local[c].timed_out
        /\ \E k \in Collectors : tasks[k].abandoned /\ tasks[k].status = "running"


\* a launch call of caller c has returned with the status code 0
Succeeded(c) == pc[c] = "returned" /\ ret[c].kind = "launch" /\ ret[c].code = 0

\* C21: after every successful launch (status code 0) the in-memory usage
\* count of the launched candidate's display name is exactly one higher than
\* before, in every configuration of the engine.
C21_SuccessCountsOnce ==
    \A c \in Callers :
        Succeeded(c) =>
            UsageOf(usage_stats, ret[c].results[1].display_name)
                = local[c].usage_before + 1


\* C22: after cleanup() has returned no new build phase is accepted: no later
\* step of a search, a launch or the worker submits a collector or changes the
\* index state or the catalog.
C22_NoBuildAfterCleanup ==
    [][hist.cleaned =>
          /\ hist'.submitted = hist.submitted
          /\ indexed' = indexed
          /\ full_indexed' = full_indexed
          /\ candidates' = candidates]_vars


\* C23: launch with force_reindex=True forces a re-index in every index state:
\* the forced call enters the quick build and then the full build, so that the
\* collectors are invoked again before the query is matched.
C23_ForceReindexRebuilds ==
    [][\A c \in Callers :
          /\ (pc[c] = "build_index" /\ pc'[c] # pc[c]) => pc'[c] = "q_lock"
          /\ (pc[c] = "build_index_full" /\ pc'[c] # pc[c]) => pc'[c] = "f_lock"]_vars


\* the cache write of the merge step about to be taken by thread t fails
SaveFails(t) == pc[t] \in MergePcs /\ pc'[t] # pc[t] /\ hist'.faults > hist.faults

\* C24: a failed cache write after a build phase is not fatal and leaves the
\* result of the build in memory: the catalog and the index state after the
\* phase are what they are after a successful write, and the build returns to
\* its caller without raising.
C24_FailedSaveKeepsBuild ==
    [][\A t \in Threads :
          SaveFails(t) =>
              /\ candidates' = Deduplicate(local[t].acc)
              /\ indexed'
              /\ pc[t] = "f_merge" => full_indexed'
              /\ pc'[t] = Head(frames[t])
              /\ ret' = ret]_vars

\* a quick build has completed although its cache write failed: the engine is
\* QuickIndexed with the collectors' results and no cache file was written
C24_Witness ==
    /\ enable_cache
    /\ hist.quick_transitions = 1
    /\ hist.faults = 1
    /\ hist.failed = {}
    /\ cache_file = NoCacheFile
    /\ indexed
    /\ candidates = QuickSnapshot


\* "notepad", "Notepad", "note"
Notepad == << "n", "o", "t", "e", "p", "a", "d" >>

NotepadCapital == << "N", "o", "t", "e", "p", "a", "d" >>

Note == << "n", "o", "t", "e" >>

\* C25: the per-name score does not depend on the letter case or on the
\* surrounding whitespace of either argument: score(q, n) is the score of the
\* lower-cased, trimmed q and n; score("notepad", "Notepad") = 100 and
\* score("note", "Notepad") = 90.
C25_ScoreIgnoresCaseAndSpace ==
    /\ fn = "match_score" =>
           fn_out[1] = match_score(fn_in.enabled, Strip(Lower(fn_in.query)),
                                   Strip(Lower(fn_in.name)))
    /\ match_score(TRUE, Notepad, NotepadCapital) = 100
    /\ match_score(TRUE, Note, NotepadCapital) = 90

\* a query and a name that differ in case and in surrounding blanks score 100
C25_Witness ==
    /\ fn = "match_score"
    /\ fn_in.query = << "a", " " >>
    /\ fn_in.name = << " ", "A" >>
    /\ fn_out = << 100 >>


\* C26: a caller in the bounded wait stops waiting as soon as the worker has
\* reached QuickIndexed: when it leaves the wait in a state that is indexed
\* while the worker is still running (in its full build), it has not waited
\* for the timeout to elapse.
C26_WaitEndsAtQuickIndexed ==
    [][\A c \in Callers :
          (pc[c] = "wait_join" /\ pc'[c] # pc[c] /\ indexed /\ WorkerAlive)
              => ~local'[c].timed_out]_vars


\* C27: the full build runs its three collectors through a worker pool of size
\* 3: once a build has submitted the three, the pool has three threads and
\* none of the three is left queued behind another call.
C27_FullBuildPoolOfThree ==
    \A t \in Threads :
        pc[t] = "f_collect" =>
            /\ executor.max_workers = 3
            /\ \A k \in SeqToSet(FullCollectors) : tasks[k].status # "queued"


\* the candidates of a cache record written by this process (its age is 0)
WrittenCandidates ==
    IF cache_file.exists /\ ~cache_file.corrupt /\ cache_file.age = 0
    THEN {cache_file.candidates[i].fields : i \in 1..Len(cache_file.candidates)}
    ELSE {}

\* C28: a collector call that exceeded its timeout is abandoned and its
\* eventual result is discarded: the candidates it returns never appear in the
\* catalog, nor in a cache record written afterwards.
C28_LateResultDiscarded ==
    \A k \in Collectors :
        tasks[k].abandoned =>
            /\ SeqToSet(StubResult(k)) \cap SeqToSet(candidates) = {}
            /\ SeqToSet(StubResult(k)) \cap WrittenCandidates = {}

\* the start-menu collector returned after its call was abandoned; the quick
\* build has merged and saved the result of the PATH collector alone
C28_Witness ==
    /\ tasks["startmenu"].abandoned
    /\ tasks["startmenu"].status = "finished"
    /\ hist.quick_transitions = 1
    /\ candidates = Deduplicate(StubResult("path"))
    /\ WrittenCandidates = SeqToSet(candidates)


TwoCallers == {"c1", "c2"}

\* _load_usage_stats: no file, or the counts of earlier launches
LoadedStats == { << >>, [n \in {<< "n", "p" >>} |-> 3] }

InitUsage ==
    /\ enable_cache = TRUE
    /\ auto_index \in BOOLEAN
    /\ pinyin_enabled = TRUE
    /\ similarity = << >>
    /\ cache_file = CacheRecord(3600, TRUE, FullSnapshot)
    /\ LET load == LoadIndexCache(cache_file)
       IN  /\ candidates = load.candidates
           /\ indexed = load.indexed
           /\ full_indexed = load.full_indexed
           /\ background_indexing = StartsWorker(enable_cache, auto_index, load.indexed)
    /\ pc = [t \in {Worker} \cup TwoCallers |-> IF t = Worker THEN "w_none" ELSE "idle"]
    /\ lock = [owner |-> "none", count |-> 0]
    /\ executor = NoExecutor
    /\ usage_stats \in LoadedStats
    /\ tasks = [k \in Collectors |-> NoTask]
    /\ frames = [t \in {Worker} \cup TwoCallers |-> << >>]
    /\ call = [c \in TwoCallers |-> NoCall]
    /\ local = [t \in {Worker} \cup TwoCallers |-> NoLocal]
    /\ ret = [c \in TwoCallers |-> NoRet]
    /\ ncalls = 0
    /\ hist = [NoHist EXCEPT !.cache_indexed = TRUE]
    /\ FnIdle

\* the steps of a call on an engine that is FullIndexed: no wait, no build
UsageStep(c) ==
    \/ StartCall(c)
    \/ CallReturns(c)
    \/ SearchMatch(c)
    \/ BuildIndex(c)
    \/ LaunchMatch(c)
    \/ LaunchMiss(c)
    \/ LaunchNotFound(c)
    \/ StartProgram(c)
    \/ UsageRead(c)
    \/ UsageWrite(c)

NextUsage == \E c \in TwoCallers : UsageStep(c)

SpecUsage == InitUsage /\ [][NextUsage]_vars

\* C30: two launch calls running at the same time that both succeed for the
\* same display name raise the usage count of that name by exactly 2: with
\* both calls returned, the count is 2 above the lower of the two counts the
\* calls found before their update.
C30_NoLostUsageUpdate ==
    \A c \in TwoCallers, d \in TwoCallers :
        (/\ c # d
         /\ Succeeded(c)
         /\ Succeeded(d)
         /\ ret[c].results[1].display_name = ret[d].results[1].display_name) =>
            UsageOf(usage_stats, ret[c].results[1].display_name)
                = Min(local[c].usage_before, local[d].usage_before) + 2


\* every collector of the phase returned its result to result() in time
Arrived(ks) ==
    \A i \in 1..Len(ks) :
        /\ tasks[ks[i]].status = "finished"
        /\ ~tasks[ks[i]].abandoned
        /\ ks[i] \notin hist.failed

\* C31: when all collectors of a build phase return within their timeouts,
\* the catalog after the phase does not depend on the order in which they
\* complete: it is the merge in the fixed order StartMenu, PathEnv for the
\* quick build and existing catalog, CommonPaths, Registry, Shortcuts for
\* the full build, so on a path collision the earlier source wins.
C31_MergeOrderFixed ==
    [][\A t \in Threads :
          /\ (pc[t] = "q_merge" /\ pc'[t] # pc[t] /\ Arrived(QuickCollectors)) =>
                candidates' = Deduplicate(StubResult("startmenu") \o StubResult("path"))
          /\ (pc[t] = "f_merge" /\ pc'[t] # pc[t] /\ Arrived(FullCollectors)) =>
                candidates' = Deduplicate(candidates \o StubResult("common_paths")
                                            \o StubResult("registry")
                                            \o StubResult("shortcuts"))]_vars

\* both phases were built in this process with every collector in time; the
\* colliding paths kept the entry of the earlier source
C31_Witness ==
    /\ hist.quick_transitions = 1
    /\ hist.full_transitions = 1
    /\ Arrived(CollectorOrder)
    /\ Len(candidates) = 4
    /\ candidates[1].source = "startmenu"
    /\ candidates[2].source = "path"
    /\ candidates[3].source = "scan"
    /\ candidates[4].source = "shortcut"


\* scored_candidates of the call in fn_in
ScoredOfCall ==
    ScoredCandidates(pinyin_enabled, fn_in.stats, Strip(fn_in.query), fn_in.cands)

\* C32: with usage counts that are not negative every entry of the primary
\* ranking has ranking score 50 or more and a per-candidate score above 0 (a
\* candidate whose per-candidate score is 0 is left out whatever its usage
\* count), so the fallback is asked exactly when no candidate of the catalog
\* has a per-candidate score above 0, and its answer is then the result.
C32_PrimaryAtLeast50 ==
    fn = "_fuzzy_match" =>
        LET scored == ScoredOfCall
            ranked == Ranked
        IN  /\ \A i \in 1..Len(scored) :
                  /\ scored[i].score >= 50
                  /\ PerCandidate(scored[i].candidate) > 0
            /\ {scored[i].candidate : i \in 1..Len(scored)} = ranked
            /\ NeedsFallback(scored) <=> ranked = {}
            /\ fn_out = IF ranked = {}
                        THEN FallbackFuzzyMatch(fn_in.sim, Strip(fn_in.query), fn_in.limit,
                                                fn_in.cands)
                        ELSE PrimaryResult

\* a candidate with 16 launches and per-candidate score 0 is in the catalog
\* and not in the result, which is the primary ranking
C32_Witness ==
    /\ fn = "_fuzzy_match"
    /\ \E c \in SeqToSet(fn_in.cands) :
          /\ PerCandidate(c) = 0
          /\ UsageOf(fn_in.stats, c.display_name) = 16
          /\ c \notin SeqToSet(fn_out)
    /\ Ranked # {}
    /\ Len(fn_out) = 2


(***************************************************************************)
(* _fuzzy_match on catalogs whose candidates tie (specification SpecTie).  *)
(***************************************************************************)
\* for the query "n": two prefix matches (90) and a substring match (60)
\* that reaches 90 with 15 launches
TiePool ==
    { ProgramCandidate(<< "n", "p" >>, << "d", "\\", "a", ".", "x" >>, "startmenu",
                       << >>, "none"),
      ProgramCandidate(<< "n", "q" >>, << "d", "\\", "b", ".", "x" >>, "path",
                       << >>, "none"),
      ProgramCandidate(<< "x", "n" >>, << "d", "\\", "c", ".", "x" >>, "scan",
                       << >>, "none") }

TieQueries == { << "n" >>, << "n", "p" >>, << "q" >> }

TieStats == [{<< "n", "q" >>, << "x", "n" >>} -> {0, 15}]

TieSimilarities ==
    { << >>, [p \in TieQueries \X (UNION {all_names(c) : c \in TiePool}) |-> 70] }

TieCatalogs ==
    {s \in SeqsUpTo(TiePool, MaxCands) : \A i, j \in 1..Len(s) : i # j => s[i] # s[j]}

InitTie ==
    /\ LauncherIdle
    /\ fn = "none"
    /\ fn_in \in [cands : TieCatalogs, stats : TieStats, sim : TieSimilarities,
                   query : TieQueries, limit : 0..MaxLimit]
    /\ fn_out = << >>

SpecTie == InitTie /\ [][NextRank]_vars

\* position of a candidate in the catalog of the call (catalogs hold no
\* candidate twice)
CatalogIndex(c) == CHOOSE i \in 1..Len(fn_in.cands) : fn_in.cands[i] = c

\* C33: ties in the primary ranking are broken by catalog order: two returned
\* candidates of equal ranking score are in the order of the catalog, and a
\* candidate that ties with a returned one and precedes it in the catalog is
\* returned before it, so the catalog and the usage counts determine the
\* result of search and the candidate launch picks (the first of the list).
C33_TiesInCatalogOrder ==
    (fn = "_fuzzy_match" /\ Ranked # {}) =>
        /\ \A i, j \in 1..Len(fn_out) :
              (i < j /\ Ranking(fn_out[i]) = Ranking(fn_out[j])) =>
                  CatalogIndex(fn_out[i]) < CatalogIndex(fn_out[j])
        /\ \A c \in Ranked : \A j \in 1..Len(fn_out) :
              (Ranking(c) = Ranking(fn_out[j]) /\ CatalogIndex(c) < CatalogIndex(fn_out[j])) =>
                  \E i \in 1..(j - 1) : fn_out[i] = c

\* two prefix matches without launches and a substring match with 15 launches
\* tie at 90; the catalog lists them substring match first, and so does the
\* result, which the limit cuts after the second
C33_Witness ==
    /\ fn = "_fuzzy_match"
    /\ fn_in.limit = 2
    /\ Len(fn_in.cands) = 3
    /\ \A c \in SeqToSet(fn_in.cands) : Ranking(c) = 90
    /\ fn_in.cands[1].display_name = << "x", "n" >>
    /\ fn_in.cands[2].display_name = << "n", "q" >>
    /\ fn_out = << fn_in.cands[1], fn_in.cands[2] >>

\* ages at which a later process reads the record: at once, after an hour,
\* after exactly 12 hours
RoundTripAges == {0, 3600, MaxCacheAge}

\* the build step of t wrote the cache record
SaveWrites(t) ==
    /\ enable_cache
    /\ pc[t] \in MergePcs
    /\ pc'[t] # pc[t]
    /\ hist'.faults = hist.faults

\* C34: cache round trip: the record a build phase saves, loaded by a new
\* engine within 12 hours, gives that engine the same candidates in the same
\* order (display name, path, source, aliases, metadata) and the same
\* full-indexed flag, with the engine QuickIndexed or FullIndexed as the
\* saving engine was.
C34_CacheRoundTrip ==
    [][\A t \in Threads : SaveWrites(t) =>
          \A age \in RoundTripAges :
              LET load == LoadIndexCache([cache_file' EXCEPT !.age = age])
              IN  /\ load.candidates = candidates'
                  /\ load.indexed = indexed'
                  /\ load.full_indexed = full_indexed'
                  /\ indexed']_vars

\* the full build of this process saved its catalog of four candidates, and
\* the record read back 12 hours later gives the catalog with its sources,
\* aliases and metadata
C34_Witness ==
    /\ hist.full_transitions = 1
    /\ full_indexed
    /\ cache_file = SavedCache(candidates, TRUE)
    /\ Len(candidates) = 4
    /\ candidates[1].metadata = "appid"
    /\ LoadIndexCache([cache_file EXCEPT !.age = MaxCacheAge]) =
          [candidates |-> candidates, indexed |-> TRUE, full_indexed |-> TRUE,
           loaded |-> TRUE]

====
